---- MODULE Spec2Model ----
(***************************************************************************)
(* Model of the car packaging / restore pipeline of meta-client-sdk:       *)
(* CmdGoCar.CreateGoCarFiles, CmdGoCar.createFilesDescFromManifest,        *)
(* WriteCarFilesToFiles and CmdGoCar.RestoreCarToFiles.                    *)
(*                                                                         *)
(* The external collaborators (graphsplit.ChunkMulti / CarTo / Merge, the  *)
(* file system, the MD5 primitive) are modelled by their possible          *)
(* outcomes, chosen nondeterministically at the call site.                 *)
(***************************************************************************)
EXTENDS Integers, Sequences, FiniteSets, TLC

\* ------------------------------------------------------------------ bounds
MaxRuns     == 2   \* successive calls into the same output directory
MaxRows     == 2   \* data rows the raw manifest may hold in total
MaxLinks    == 2   \* links in one row's decoded detail
MaxEntries  == 2   \* immediate entries of the input root
MaxPerSlice == 1   \* rows one Slicer invocation appends

\* ------------------------------------------------------------ value spaces
SizeLimits == {-1, 0, 1}

\* the entries of the input root as links {Name, Hash, Size} of a
\* ManifestDetail, in directory order
Links == <<[Name |-> "a", Size |-> 1], [Name |-> "b", Size |-> 2],
           [Name |-> "c", Size |-> 4]>>

SeqsUpTo(S, n) == UNION {[1..k -> S] : k \in 0..n}

\* the Link arrays a slice may carry: the first k entries
LinkLists == {SubSeq(Links, 1, k) : k \in 0..MaxLinks}

\* A raw-manifest data row as strings.Split / json.Unmarshal see it:
\*   nfields : number of comma separated fields of the line
\*   decodes : whether fields[4..] rejoined with "," is valid JSON
\*   Link    : the Link array of the decoded ManifestDetail
RowShapes ==
    {[nfields |-> 4, decodes |-> FALSE, Link |-> <<>>],
     [nfields |-> 5, decodes |-> FALSE, Link |-> <<>>]}
    \cup {[nfields |-> 8 + (IF l = <<>> THEN 0 ELSE 3 * Len(l) - 1),
            decodes |-> TRUE, Link |-> l] : l \in LinkLists}

ManifestDetail(row) == [Link |-> row.Link]

NoErr == "nil"

\* what a call hands back to its caller: (fileDescs, err)
Ret(isnil, descs, err) == [nil |-> isnil, descs |-> descs, err |-> err]
NoRet == Ret(TRUE, <<>>, NoErr)

NoProbe == [src |-> "none", car |-> "none"]

VARIABLES
    run,            \* number of calls started so far
    pc,             \* position of the current call
    op,             \* "package" | "restore" | "none"
    cfg,            \* the CmdGoCar fields of the current call
    unitsLeft,      \* source units still to be handed to the Slicer
    sliceCalls,     \* graphsplit.ChunkMulti invocations of this call
    sliceFailed,    \* a ChunkMulti invocation of this call returned an error
    reconcilerCalls,\* createFilesDescFromManifest invocations of this call
    writerCalls,    \* WriteCarFilesToFiles invocations of this call
    i,              \* index of the next manifest data row
    fileDescs,      \* the accumulating []*FileDesc
    failStep,       \* where the row loop gave up
    probe,          \* what the file system answered for the last row
    ret,            \* (fileDescs, err) returned by the call
    outDir,         \* "absent" | "present" | "blocked"
    manifest,       \* data rows of OutputDir/manifest.csv (header skipped)
    jsonWritten,    \* car.json written (with fileDescs) by this call
    csvWritten,     \* car.csv created by this call
    extractCalls,   \* graphsplit.CarTo invocations of this call
    mergeCalls,     \* graphsplit.Merge invocations of this call
    primFailed,     \* a restore primitive failed internally
    stages          \* restore states visited by this call, in order

vars == <<run, pc, op, cfg, unitsLeft, sliceCalls, sliceFailed,
          reconcilerCalls, writerCalls, i, fileDescs, failStep, probe, ret,
          outDir, manifest, jsonWritten, csvWritten,
          extractCalls, mergeCalls, primFailed, stages>>

diskVars == <<outDir, manifest>>
pkgVars  == <<cfg, unitsLeft, sliceCalls, sliceFailed, reconcilerCalls,
              writerCalls, i, fileDescs, failStep, probe,
              jsonWritten, csvWritten>>
rstVars  == <<extractCalls, mergeCalls, primFailed, stages>>

NoCfg == [sizeLimit |-> 0, folderBased |-> FALSE, genMd5 |-> FALSE]

Init ==
    /\ run = 0
    /\ pc = "idle"
    /\ op = "none"
    /\ cfg = NoCfg
    /\ unitsLeft = 0
    /\ sliceCalls = 0
    /\ sliceFailed = FALSE
    /\ reconcilerCalls = 0
    /\ writerCalls = 0
    /\ i = 1
    /\ fileDescs = <<>>
    /\ failStep = "none"
    /\ probe = NoProbe
    /\ ret = NoRet
    /\ outDir \in {"absent", "blocked"}
    /\ manifest = <<>>
    /\ jsonWritten = FALSE
    /\ csvWritten = FALSE
    /\ extractCalls = 0
    /\ mergeCalls = 0
    /\ primFailed = FALSE
    /\ stages = <<"Idle">>

\* utils.CreateDirIfNotExists(OutputDir, DIR_NAME_OUTPUT)
CreateDirIfNotExists(d) == IF d = "blocked" THEN "blocked" ELSE "present"
CreateDirOk(d) == d # "blocked"


\* ------------------------------------------------------- packaging: start
\* if sliceSize <= 0
SliceSizeTooSmall_Strict(sliceSize) == sliceSize < 0
SliceSizeTooSmall(sliceSize) == sliceSize <= 0

CanStart == pc \in {"idle", "done", "panic"} /\ run < MaxRuns

\* the locals of a fresh call
FreshCall(o) ==
    /\ run' = run + 1
    /\ op' = o
    /\ sliceCalls' = 0
    /\ sliceFailed' = FALSE
    /\ reconcilerCalls' = 0
    /\ writerCalls' = 0
    /\ i' = 1
    /\ fileDescs' = <<>>
    /\ failStep' = "none"
    /\ probe' = NoProbe
    /\ jsonWritten' = FALSE
    /\ csvWritten' = FALSE
    /\ extractCalls' = 0
    /\ mergeCalls' = 0
    /\ primFailed' = FALSE

\* return nil, err
Fail(err) ==
    /\ pc' = "done"
    /\ ret' = Ret(TRUE, <<>>, err)

\* CreateGoCarFiles up to the first Slicer invocation
StartPackage(sizeLimit, folderBased, genMd5, nEntries, readDirOk) ==
    /\ CanStart
    /\ FreshCall("package")
    /\ cfg' = [sizeLimit |-> sizeLimit, folderBased |-> folderBased,
               genMd5 |-> genMd5]
    /\ stages' = <<>>
    /\ outDir' = CreateDirIfNotExists(outDir)
    /\ UNCHANGED manifest
    /\ IF ~CreateDirOk(outDir)
         THEN Fail("IOError") /\ unitsLeft' = 0
       ELSE IF SliceSizeTooSmall(sizeLimit)
         THEN Fail("ConfigurationError") /\ unitsLeft' = 0
       ELSE IF ~readDirOk
         THEN Fail("IOError") /\ unitsLeft' = 0
       ELSE /\ pc' = "slicing"
            /\ ret' = NoRet
            /\ unitsLeft' = IF folderBased THEN 1 ELSE nEntries

\* ------------------------------------------------------ packaging: slicing
\* rows appended to manifest.csv by the commP callback of one ChunkMulti
Appended(rows) ==
    [k \in 1..Len(rows) |->
        [cid |-> Len(manifest) + k, run |-> run,
         nfields |-> rows[k].nfields, decodes |-> rows[k].decodes,
         Link |-> rows[k].Link]]

\* one graphsplit.ChunkMulti invocation, its error ignored
Slice_IgnoreErr(ok, rows) ==
    /\ pc = "slicing"
    /\ unitsLeft > 0
    /\ Len(manifest) + Len(rows) <= MaxRows
    /\ sliceCalls' = sliceCalls + 1
    /\ manifest' = manifest \o Appended(rows)
    /\ sliceFailed' = (sliceFailed \/ ~ok)
    /\ unitsLeft' = unitsLeft - 1
    /\ UNCHANGED <<pc, ret>>
    /\ UNCHANGED <<run, op, cfg, reconcilerCalls, writerCalls, i, fileDescs,
                   failStep, probe, outDir, jsonWritten,
                   csvWritten>>
    /\ UNCHANGED rstVars

\* one graphsplit.ChunkMulti invocation and the check of its error
Slice(ok, rows) ==
    /\ pc = "slicing"
    /\ unitsLeft > 0
    /\ Len(manifest) + Len(rows) <= MaxRows
    /\ sliceCalls' = sliceCalls + 1
    /\ manifest' = manifest \o Appended(rows)
    /\ IF ok
         THEN /\ unitsLeft' = unitsLeft - 1
              /\ UNCHANGED <<pc, ret, sliceFailed>>
         ELSE /\ sliceFailed' = TRUE
              /\ Fail("SlicerError")
              /\ UNCHANGED unitsLeft
    /\ UNCHANGED <<run, op, cfg, reconcilerCalls, writerCalls, i, fileDescs,
                   failStep, probe, outDir, jsonWritten,
                   csvWritten>>
    /\ UNCHANGED rstVars

\* --------------------------------------------------- reconciler: row loop
\* ReadAllLines fails when manifest.csv does not exist; the commP callback
\* creates it (header first) together with the first row
ManifestExists == Len(manifest) > 0

\* createFilesDescFromManifest up to the row loop
BeginReconcile(readOk) ==
    /\ pc = "slicing"
    /\ unitsLeft = 0
    /\ reconcilerCalls' = reconcilerCalls + 1
    /\ i' = 1
    /\ fileDescs' = <<>>
    /\ IF ManifestExists /\ readOk
         THEN pc' = "rows" /\ UNCHANGED ret
         ELSE Fail("IOError")
    /\ UNCHANGED <<run, op, cfg, unitsLeft, sliceCalls, sliceFailed,
                   writerCalls, failStep, probe, jsonWritten, csvWritten>>
    /\ UNCHANGED diskVars
    /\ UNCHANGED rstVars

\* for _, link := range manifestDetail.Link { size = size + link.Size }
RECURSIVE AddLinkSizes(_, _, _)
AddLinkSizes(links, k, acc) ==
    IF k > Len(links) THEN acc
    ELSE AddLinkSizes(links, k + 1, acc + links[k].Size)

\* manifestDetail.Link[0] is an index out of range on an empty Link
IndexPanics(folderBased, detail) == ~folderBased /\ Len(detail.Link) = 0

SourceFileSize_LastLink(folderBased, detail) ==
    IF folderBased THEN AddLinkSizes(detail.Link, 2, 0)
    ELSE detail.Link[Len(detail.Link)].Size

SourceFileSize(folderBased, detail) ==
    IF folderBased THEN AddLinkSizes(detail.Link, 1, 0)
    ELSE detail.Link[1].Size

SourceFileName(folderBased, detail) ==
    IF folderBased THEN "root" ELSE detail.Link[1].Name

\* The source side of the GenerateMd5 block.  src is what the file system
\* holds at SourceFilePath: "absent", "readable", or "unreadable" (the file
\* exists and checksum.MD5sum fails on it).
SourceMd5_NoExistsCheck(src) ==
    IF src = "readable" THEN [err |-> FALSE, md5 |-> "md5"]
    ELSE [err |-> TRUE, md5 |-> ""]

SourceMd5(src) ==
    IF src = "absent" THEN [err |-> FALSE, md5 |-> ""]
    ELSE IF src = "readable" THEN [err |-> FALSE, md5 |-> "md5"]
    ELSE [err |-> TRUE, md5 |-> ""]

\* The archive side: checksum.MD5sum(CarFilePath)
CarMd5(carOk) ==
    IF carOk THEN [err |-> FALSE, md5 |-> "md5"] ELSE [err |-> TRUE, md5 |-> ""]

FileDesc(row, folderBased, srcMd5, carMd5) ==
    [PayloadCid     |-> row.cid,
     CarFileName    |-> <<row.cid, ".car">>,
     CarFileUrl     |-> <<row.cid, ".car">>,
     SourceFileName |-> SourceFileName(folderBased, ManifestDetail(row)),
     SourceFileSize |-> SourceFileSize(folderBased, ManifestDetail(row)),
     SourceFileMd5  |-> srcMd5,
     CarFileMd5     |-> carMd5]

\* what a failing row makes createFilesDescFromManifest return
RowFailRet_Partial(descs, err) == Ret(FALSE, descs, err)
RowFailRet(descs, err) == Ret(TRUE, <<>>, err)

RowFail(step, err) ==
    /\ failStep' = step
    /\ pc' = "done"
    /\ ret' = RowFailRet(fileDescs, err)
    /\ UNCHANGED <<i, fileDescs>>

\* one iteration of the row loop
ReconcileRow(src, carOk) ==
    /\ pc = "rows"
    /\ i <= Len(manifest)
    /\ LET row    == manifest[i]
           detail == ManifestDetail(row)
           sm     == SourceMd5(src)
           cm     == CarMd5(carOk)
       IN  IF row.nfields < 5
             THEN RowFail("format", "ManifestFormatError") /\ UNCHANGED probe
           ELSE IF ~row.decodes
             THEN RowFail("parse", "ManifestParseError") /\ UNCHANGED probe
           ELSE IF IndexPanics(cfg.folderBased, detail)
             THEN /\ pc' = "panic"
                  /\ failStep' = "index"
                  /\ UNCHANGED <<i, fileDescs, ret, probe>>
           ELSE IF ~cfg.genMd5
             THEN /\ fileDescs' = Append(fileDescs,
                                    FileDesc(row, cfg.folderBased, "", ""))
                  /\ i' = i + 1
                  /\ UNCHANGED <<pc, ret, failStep, probe>>
           ELSE IF sm.err
             THEN /\ RowFail("srcmd5", "ChecksumError")
                  /\ probe' = [src |-> src, car |-> "none"]
           ELSE IF cm.err
             THEN /\ RowFail("carmd5", "ChecksumError")
                  /\ probe' = [src |-> src, car |-> "unreadable"]
           ELSE /\ fileDescs' = Append(fileDescs,
                                  FileDesc(row, cfg.folderBased, sm.md5, cm.md5))
                /\ i' = i + 1
                /\ probe' = [src |-> src, car |-> "readable"]
                /\ UNCHANGED <<pc, ret, failStep>>
    /\ UNCHANGED <<run, op, cfg, unitsLeft, sliceCalls, sliceFailed,
                   reconcilerCalls, writerCalls, jsonWritten, csvWritten>>
    /\ UNCHANGED diskVars
    /\ UNCHANGED rstVars

\* ------------------------------------------------------- metadata writer
\* the call of the writer that fails, if any: os.MkdirAll, ioutil.WriteFile
\* of car.json, os.Create of car.csv, csv.Writer.Write
WriterFailures == {"none", "MkdirAll", "WriteFile", "Create", "Write"}

\* WriteCarFilesToFiles (MkdirAll, WriteFileDescsToJsonFile,
\* WriteCarFilesToCsvFile) and the return of createFilesDescFromManifest
WriteCatalogs(failAt) ==
    /\ pc = "rows"
    /\ i > Len(manifest)
    /\ writerCalls' = writerCalls + 1
    /\ pc' = "done"
    /\ IF failAt \in {"MkdirAll", "WriteFile"}
         THEN /\ ret' = Ret(TRUE, <<>>, "IOError")
              /\ UNCHANGED <<jsonWritten, csvWritten>>
       ELSE IF failAt = "Create"
         THEN /\ ret' = Ret(TRUE, <<>>, "IOError")
              /\ jsonWritten' = TRUE
              /\ UNCHANGED csvWritten
       ELSE IF failAt = "Write"
         THEN /\ ret' = Ret(TRUE, <<>>, "IOError")
              /\ jsonWritten' = TRUE
              /\ csvWritten' = TRUE
       ELSE /\ ret' = Ret(FALSE, fileDescs, NoErr)
            /\ jsonWritten' = TRUE
            /\ csvWritten' = TRUE
    /\ UNCHANGED <<run, op, cfg, unitsLeft, sliceCalls, sliceFailed,
                   reconcilerCalls, i, fileDescs, failStep, probe,
                   outDir, manifest>>
    /\ UNCHANGED rstVars

\* ----------------------------------------------------------------- restore
\* RestoreCarToFiles up to graphsplit.CarTo
StartRestore ==
    /\ CanStart
    /\ FreshCall("restore")
    /\ cfg' = NoCfg
    /\ unitsLeft' = 0
    /\ outDir' = CreateDirIfNotExists(outDir)
    /\ UNCHANGED manifest
    /\ IF ~CreateDirOk(outDir)
         THEN /\ Fail("IOError")
              /\ stages' = <<"Idle", "Validating", "Failed">>
         ELSE /\ pc' = "extracting"
              /\ ret' = NoRet
              /\ stages' = <<"Idle", "Validating", "Extracting">>

\* graphsplit.CarTo, the merge skipped when the extraction went wrong
Extract_StopOnFailure(ok) ==
    /\ pc = "extracting"
    /\ extractCalls' = extractCalls + 1
    /\ primFailed' = (primFailed \/ ~ok)
    /\ IF ok
         THEN pc' = "merging" /\ stages' = Append(stages, "Merging")
                /\ UNCHANGED ret
         ELSE pc' = "done" /\ stages' = Append(stages, "Done")
                /\ ret' = Ret(TRUE, <<>>, NoErr)
    /\ UNCHANGED <<run, op, mergeCalls>>
    /\ UNCHANGED pkgVars
    /\ UNCHANGED diskVars

\* graphsplit.CarTo(InputDir, OutputDir, Parallel): nothing is returned
Extract(ok) ==
    /\ pc = "extracting"
    /\ extractCalls' = extractCalls + 1
    /\ primFailed' = (primFailed \/ ~ok)
    /\ pc' = "merging"
    /\ stages' = Append(stages, "Merging")
    /\ UNCHANGED <<run, op, ret, mergeCalls>>
    /\ UNCHANGED pkgVars
    /\ UNCHANGED diskVars

\* graphsplit.Merge with a failure of either primitive handed to the caller
Merge_ReportFailure(ok) ==
    /\ pc = "merging"
    /\ mergeCalls' = mergeCalls + 1
    /\ primFailed' = (primFailed \/ ~ok)
    /\ pc' = "done"
    /\ stages' = Append(stages, "Done")
    /\ ret' = Ret(TRUE, <<>>, IF primFailed \/ ~ok THEN "IOError" ELSE NoErr)
    /\ UNCHANGED <<run, op, extractCalls>>
    /\ UNCHANGED pkgVars
    /\ UNCHANGED diskVars

\* graphsplit.Merge(OutputDir, Parallel) and return nil
Merge(ok) ==
    /\ pc = "merging"
    /\ mergeCalls' = mergeCalls + 1
    /\ primFailed' = (primFailed \/ ~ok)
    /\ pc' = "done"
    /\ stages' = Append(stages, "Done")
    /\ ret' = Ret(TRUE, <<>>, NoErr)
    /\ UNCHANGED <<run, op, extractCalls>>
    /\ UNCHANGED pkgVars
    /\ UNCHANGED diskVars

\* ------------------------------------------------------------ specification
Next ==
    \/ \E sizeLimit \in SizeLimits, folderBased \in BOOLEAN,
          genMd5 \in BOOLEAN, nEntries \in 0..MaxEntries,
          readDirOk \in BOOLEAN :
          StartPackage(sizeLimit, folderBased, genMd5, nEntries, readDirOk)
    \/ \E ok \in BOOLEAN, rows \in SeqsUpTo(RowShapes, MaxPerSlice) :
          Slice(ok, rows)
    \/ \E readOk \in BOOLEAN : BeginReconcile(readOk)
    \/ \E src \in {"absent", "readable", "unreadable"}, carOk \in BOOLEAN :
          ReconcileRow(src, carOk)
    \/ \E failAt \in WriterFailures : WriteCatalogs(failAt)
    \/ StartRestore
    \/ \E ok \in BOOLEAN : Extract(ok)
    \/ \E ok \in BOOLEAN : Merge(ok)

Spec == Init /\ [][Next]_vars

\* ---------------------------------------------------------------- helpers
RowOf(desc) == manifest[desc.PayloadCid]

HasBadRow == \E k \in 1..Len(manifest) :
                manifest[k].nfields < 5 \/ ~manifest[k].decodes

RECURSIVE TotalSize(_)
TotalSize(links) ==
    IF links = <<>> THEN 0 ELSE Head(links).Size + TotalSize(Tail(links))

RestorePath == <<"Idle", "Validating", "Extracting", "Merging", "Done">>
RestoreFailedPath == <<"Idle", "Validating", "Failed">>

IsPrefix(s, t) == Len(s) <= Len(t) /\ \A k \in 1..Len(s) : s[k] = t[k]

\* -------------------------------------------------------------- properties

\* C1: reconciliation is all-or-nothing.  A row that fails (fewer than 5
\* fields, undecodable trailing JSON, checksum failure) ends the call at
\* once with an error and a nil descriptor list, and the Metadata Writer is
\* never invoked, so neither catalog is written; a manifest that holds a
\* malformed row never yields descriptors or catalogs.
C1_AllOrNothing ==
    /\ failStep \in {"format", "parse", "srcmd5", "carmd5"} =>
          /\ pc = "done"
          /\ ret.nil /\ ret.descs = <<>> /\ ret.err # NoErr
          /\ writerCalls = 0 /\ ~jsonWritten /\ ~csvWritten
    /\ (op = "package" /\ pc \in {"done", "panic"} /\ HasBadRow) =>
          /\ ret.nil /\ ret.descs = <<>>
          /\ pc = "done" => ret.err # NoErr
          /\ writerCalls = 0 /\ ~jsonWritten /\ ~csvWritten

C1_Witness ==
    /\ pc = "done" /\ failStep = "parse"
    /\ Len(fileDescs) >= 1
    /\ ret.nil /\ writerCalls = 0

\* C2: the Reconciler runs only after every Slicer invocation succeeded; a
\* failing Slicer invocation ends the call at once (no further unit is
\* sliced) with an error and no descriptors, and neither the Reconciler nor
\* the Metadata Writer is invoked.
C2_SlicerFailureAborts ==
    /\ sliceFailed =>
          /\ pc = "done"
          /\ ret.nil /\ ret.descs = <<>> /\ ret.err = "SlicerError"
          /\ reconcilerCalls = 0 /\ writerCalls = 0
          /\ ~jsonWritten /\ ~csvWritten
    /\ reconcilerCalls > 0 => ~sliceFailed /\ unitsLeft = 0

C2_Witness ==
    /\ sliceFailed /\ sliceCalls >= 2 /\ unitsLeft > 0
    /\ Len(manifest) >= 1 /\ manifest[1].run = run

\* C3 (as stated): every package call with sizeLimit <= 0 fails with
\* ConfigurationError, whatever the state of the file system, and the
\* Slicer is never invoked.
C3_Original ==
    (op = "package" /\ cfg.sizeLimit <= 0) =>
        pc = "done" /\ ret.err = "ConfigurationError" /\ sliceCalls = 0

\* C3 (amended): every package call with sizeLimit <= 0 fails without ever
\* invoking the Slicer; the error is ConfigurationError when the output
\* directory exists or could be created, and IOError when it could not.
C3_Amended ==
    (op = "package" /\ cfg.sizeLimit <= 0) =>
        /\ pc = "done" /\ ret.nil
        /\ sliceCalls = 0 /\ reconcilerCalls = 0
        /\ ret.err = IF outDir = "blocked" THEN "IOError"
                     ELSE "ConfigurationError"

C3_Witness ==
    /\ op = "package" /\ cfg.sizeLimit = 0 /\ outDir = "present"
    /\ pc = "done" /\ ret.err = "ConfigurationError"

\* C4: restore walks Idle, Validating, Extracting, Merging, Done in order;
\* a failed validation goes straight to the failure state with neither
\* primitive invoked; otherwise extract is invoked exactly once and has
\* completed before merge is invoked exactly once, unconditionally.
C4_RestoreOrder ==
    op = "restore" =>
        /\ IsPrefix(stages, RestorePath) \/ stages = RestoreFailedPath
        /\ stages = RestoreFailedPath =>
              /\ pc = "done" /\ ret.err = "IOError"
              /\ extractCalls = 0 /\ mergeCalls = 0
        /\ stages # RestoreFailedPath =>
              /\ extractCalls = (IF Len(stages) >= 4 THEN 1 ELSE 0)
              /\ mergeCalls = (IF Len(stages) >= 5 THEN 1 ELSE 0)
              /\ pc = "done" <=> stages = RestorePath

C4_Witness ==
    /\ op = "restore" /\ pc = "done" /\ stages = RestorePath
    /\ extractCalls = 1 /\ mergeCalls = 1

\* C5: a reconciled row's SourceFileSize is the sum of all its link sizes
\* under the whole-directory policy (0 without links) and the size of the
\* first link alone under the per-entry policy.
C5_SourceSize ==
    \A k \in 1..Len(fileDescs) :
        fileDescs[k].SourceFileSize =
            IF cfg.folderBased THEN TotalSize(RowOf(fileDescs[k]).Link)
            ELSE RowOf(fileDescs[k]).Link[1].Size

C5_Witness ==
    /\ pc = "done" /\ ~ret.nil /\ ~cfg.folderBased
    /\ \E k \in 1..Len(ret.descs) :
          /\ Len(RowOf(ret.descs[k]).Link) = 2
          /\ ret.descs[k].SourceFileSize = 1

\* C6 (as stated): with checksums requested an unreadable archive aborts
\* the reconciliation with ChecksumError, an absent source file is skipped
\* leaving SourceFileMd5 empty, and the source-side checksum step never
\* makes the run fail.
C6_Original ==
    (op = "package" /\ cfg.genMd5) =>
        /\ probe.car = "unreadable" =>
              pc = "done" /\ ret.nil /\ ret.err = "ChecksumError"
        /\ (probe.src = "absent" /\ probe.car = "readable") =>
              fileDescs[i - 1].SourceFileMd5 = ""
        /\ failStep # "srcmd5"

\* C6 (amended): with checksums requested an unreadable archive aborts the
\* reconciliation with ChecksumError; an absent source file is skipped
\* without error, leaving SourceFileMd5 empty while the descriptor is still
\* produced; the source-side step makes the run fail (ChecksumError) exactly
\* when the source file exists and its digest cannot be computed.
C6_Amended ==
    (op = "package" /\ cfg.genMd5) =>
        /\ probe.car = "unreadable" =>
              /\ pc = "done" /\ failStep = "carmd5"
              /\ ret.nil /\ ret.err = "ChecksumError"
        /\ (probe.src = "absent" /\ probe.car = "readable") =>
              /\ Len(fileDescs) = i - 1
              /\ fileDescs[i - 1].SourceFileMd5 = ""
              /\ fileDescs[i - 1].CarFileMd5 = "md5"
        /\ (probe.src = "readable" /\ probe.car = "readable") =>
              fileDescs[i - 1].SourceFileMd5 = "md5"
        /\ failStep = "srcmd5" <=> probe.src = "unreadable"
        /\ failStep = "srcmd5" =>
              pc = "done" /\ ret.nil /\ ret.err = "ChecksumError"

C6_Witness ==
    /\ op = "package" /\ cfg.genMd5
    /\ pc = "done" /\ ~ret.nil
    /\ probe.src = "absent" /\ probe.car = "readable"
    /\ ret.descs[Len(ret.descs)].SourceFileMd5 = ""

\* C7: the descriptors a packaging run returns describe only manifest rows
\* appended by that run's own Slicer invocations, never a row appended by
\* an earlier run into the same output directory.
C7_OwnRowsOnly ==
    (op = "package" /\ pc = "done" /\ ~ret.nil) =>
        \A k \in 1..Len(ret.descs) : RowOf(ret.descs[k]).run = run

\* C8: the result of restore depends on the Validating stage alone: once
\* the output directory is ensured restore returns success, whatever the
\* outcome of the extract and merge primitives.
C8_RestoreResult ==
    (op = "restore" /\ pc = "done") =>
        /\ ret.err = NoErr <=> CreateDirOk(outDir)
        /\ primFailed => ret.err = NoErr

C8_Witness ==
    /\ op = "restore" /\ pc = "done"
    /\ primFailed /\ ret.err = NoErr

\* C9: reconcile is total: it never terminates abnormally, also on a row of
\* at least 5 fields whose decoded detail has no links under the per-entry
\* policy.
C9_Total == pc # "panic"

\* C10: whenever the packaging call returns an error, neither car.json nor
\* car.csv has been written by that call, also when the failure occurs
\* inside the Metadata Writer.
C10_AtomicCatalogs ==
    (op = "package" /\ pc = "done" /\ ret.err # NoErr) =>
        ~jsonWritten /\ ~csvWritten

====
